---------------------------- MODULE Spec2Model ----------------------------
(***************************************************************************)
(* A model of the SQL copilot: the HTTP handlers of server/routes.ts, the  *)
(* warehouse client of server/bigquery.ts, the in-memory record store of   *)
(* server/storage.ts and the workflow state of the client's Home page.     *)
(*                                                                         *)
(* Texts (prompts, SQL, messages) are TLA+ strings; a character is a       *)
(* string of length one.  The back quote of the source's SQL literals is   *)
(* written ' here, because a TLA+ string cannot hold a back quote.         *)
(***************************************************************************)
EXTENDS Integers, Sequences, FiniteSets, TLC

(***************************************************************************)
(* Bounds of the model.                                                    *)
(***************************************************************************)
MaxInFlight == 2      \* requests a server handles at the same time
MaxRecords == 2       \* records the store is allowed to reach
MaxTime == 1          \* the clock reads 0 .. MaxTime

(***************************************************************************)
(* String primitives of JavaScript, character by character.                *)
(***************************************************************************)
LowerChars == "abcdefghijklmnopqrstuvwxyz"
UpperChars == "ABCDEFGHIJKLMNOPQRSTUVWXYZ"

CharAt(s, i) == SubSeq(s, i, i)

IndexIn(alphabet, c) ==
    IF \E i \in 1..Len(alphabet) : CharAt(alphabet, i) = c
    THEN CHOOSE i \in 1..Len(alphabet) : CharAt(alphabet, i) = c
    ELSE 0

ToUpperChar(c) ==
    IF IndexIn(LowerChars, c) = 0 THEN c ELSE CharAt(UpperChars, IndexIn(LowerChars, c))

ToLowerChar(c) ==
    IF IndexIn(UpperChars, c) = 0 THEN c ELSE CharAt(LowerChars, IndexIn(UpperChars, c))

RECURSIVE toUpperCase(_)
toUpperCase(s) ==
    IF s = "" THEN "" ELSE ToUpperChar(Head(s)) \o toUpperCase(Tail(s))

RECURSIVE toLowerCase(_)
toLowerCase(s) ==
    IF s = "" THEN "" ELSE ToLowerChar(Head(s)) \o toLowerCase(Tail(s))

IsWhiteSpace(c) == c \in {" ", "\n", "\t"}

RECURSIVE trimStart(_)
trimStart(s) ==
    IF s # "" /\ IsWhiteSpace(Head(s)) THEN trimStart(Tail(s)) ELSE s

RECURSIVE trimEnd(_)
trimEnd(s) ==
    IF s # "" /\ IsWhiteSpace(CharAt(s, Len(s)))
    THEN trimEnd(SubSeq(s, 1, Len(s) - 1))
    ELSE s

trim(s) == trimEnd(trimStart(s))

startsWith(s, p) == Len(p) <= Len(s) /\ SubSeq(s, 1, Len(p)) = p

includes(s, p) ==
    \E i \in 1..(Len(s) - Len(p) + 1) : SubSeq(s, i, i + Len(p) - 1) = p


RECURSIVE IntToString(_)
IntToString(n) ==
    IF n < 10 THEN CharAt("0123456789", n + 1)
    ELSE IntToString(n \div 10) \o CharAt("0123456789", (n % 10) + 1)

(***************************************************************************)
(* Number.prototype.toFixed(2) of bytes / 1e9, in hundredths of a GB       *)
(* rounded half up.                                                        *)
(***************************************************************************)
BytesPerCentiGB == 10000000

toFixed2(bytes) ==
    LET centi == (bytes + (BytesPerCentiGB \div 2)) \div BytesPerCentiGB
        frac == centi % 100
    IN  IntToString(centi \div 100) \o "." \o
        (IF frac < 10 THEN "0" ELSE "") \o IntToString(frac)

(***************************************************************************)
(* shared/schema.ts: the request schemas.  A request body is a function    *)
(* from the keys it carries to their string values; a schema lists, in     *)
(* order, each required key with the message of its min(1) check.          *)
(***************************************************************************)
promptSchema ==
    << [key |-> "prompt", message |-> "Prompt is required"],
       [key |-> "projectId", message |-> "Project ID is required"],
       [key |-> "dataset", message |-> "Dataset is required"] >>

validationSchema ==
    << [key |-> "sql", message |-> "SQL is required"],
       [key |-> "projectId", message |-> "Project ID is required"],
       [key |-> "dataset", message |-> "Dataset is required"] >>

executionSchema ==
    << [key |-> "sql", message |-> "SQL is required"],
       [key |-> "projectId", message |-> "Project ID is required"],
       [key |-> "dataset", message |-> "Dataset is required"] >>

\* The check without min(1): the empty string passes.
FieldIssueNoMin(field, body) ==
    IF field.key \notin DOMAIN body THEN "Required" ELSE ""

\* z.string().min(1, message) on one key: no issue, "Required" for a missing
\* key, the schema's message for the empty string.
FieldIssue(field, body) ==
    IF field.key \notin DOMAIN body THEN "Required"
    ELSE IF Len(body[field.key]) < 1 THEN field.message
    ELSE ""

\* schema.parse(body): the issues of the body, in schema order ("" dropped).
RECURSIVE ZodIssues(_, _)
ZodIssues(schema, body) ==
    IF schema = << >> THEN << >>
    ELSE LET issue == FieldIssue(Head(schema), body)
             rest == ZodIssues(Tail(schema), body)
         IN  IF issue = "" THEN rest ELSE << issue >> \o rest

ParseOk(schema, body) == ZodIssues(schema, body) = << >>

RECURSIVE JoinIssues(_)
JoinIssues(issues) ==
    IF issues = << >> THEN ""
    ELSE IF Len(issues) = 1 THEN Head(issues)
    ELSE Head(issues) \o "; " \o JoinIssues(Tail(issues))

\* fromZodError(error).message
fromZodError(issues) == "Validation error: " \o JoinIssues(issues)

\* Every error, a ZodError too, answered with the generic 500.
handleValidationErrorGeneric(error) ==
    [status |-> 500, json |-> [message |-> "Internal server error"]]

(***************************************************************************)
(* routes.ts handleValidationError: a ZodError is a 400 with the           *)
(* validation message, anything else the generic 500.                      *)
(***************************************************************************)
handleValidationError(error) ==
    IF error.name = "ZodError"
    THEN [status |-> 400, json |-> [message |-> fromZodError(error.issues)]]
    ELSE [status |-> 500, json |-> [message |-> "Internal server error"]]

ZodError(schema, body) == [name |-> "ZodError", issues |-> ZodIssues(schema, body)]

(***************************************************************************)
(* server/bigquery.ts                                                      *)
(***************************************************************************)
\* getQueryType: the class of a statement by its leading keyword.
getQueryType(sql) ==
    LET sqlUpper == trimStart(toUpperCase(sql))
    IN  IF startsWith(sqlUpper, "SELECT") \/ startsWith(sqlUpper, "WITH")
        THEN "READ"
        ELSE IF \/ startsWith(sqlUpper, "INSERT")
                \/ startsWith(sqlUpper, "UPDATE")
                \/ startsWith(sqlUpper, "DELETE")
                \/ startsWith(sqlUpper, "MERGE")
        THEN "WRITE"
        ELSE IF \/ startsWith(sqlUpper, "CREATE")
                \/ startsWith(sqlUpper, "DROP")
                \/ startsWith(sqlUpper, "ALTER")
                \/ startsWith(sqlUpper, "TRUNCATE")
        THEN "DDL"
        ELSE "UNKNOWN"

\* validateQuery's guard: !sql || !sql.trim() throws 'Empty SQL query' before
\* any warehouse call.
IsBlankSql(sql) == sql = "" \/ trim(sql) = ""

\* error.message || fallback
MessageOr(message, fallback) == IF message = "" THEN fallback ELSE message

\* validateQuery's result when the guard throws.
ValidateEmpty ==
    [valid |-> FALSE, processingGB |-> "0",
     message |-> MessageOr("Empty SQL query", "Invalid query")]

\* validateQuery's result from the outcome of the dry run: the job's byte
\* count, or the error createQueryJob threw.
ValidateFromDryRun(outcome) ==
    IF outcome.ok
    THEN [valid |-> TRUE, processingGB |-> toFixed2(outcome.bytes),
          message |-> "Query is valid"]
    ELSE [valid |-> FALSE, processingGB |-> "0",
          message |-> MessageOr(outcome.message, "Invalid query")]

UnknownTypeMessage ==
    "Unknown query type. Please use SELECT, INSERT, UPDATE, DELETE, or CREATE/ALTER/DROP statements."

\* executeQuery's result for a statement of unknown type: the throw is caught
\* by its own catch.
ExecuteUnknown ==
    [success |-> FALSE, error |-> MessageOr(UnknownTypeMessage, "Failed to execute query"),
     operation |-> "UNKNOWN"]

\* executeQuery's result from the outcome of the warehouse call, for a
\* statement of type queryType (READ: bigquery.query; WRITE or DDL:
\* createQueryJob and getQueryResults).
ExecuteFromWarehouse(queryType, outcome) ==
    IF ~outcome.ok
    THEN [success |-> FALSE,
          error |-> MessageOr(outcome.message, "Failed to execute query"),
          operation |-> "UNKNOWN"]
    ELSE IF queryType = "READ"
    THEN [success |-> TRUE, rows |-> outcome.rows, affectedRows |-> 0,
          operation |-> "READ"]
    ELSE [success |-> TRUE, rows |-> << >>, affectedRows |-> outcome.numDmlAffectedRows,
          operation |-> queryType]

(***************************************************************************)
(* server/storage.ts: MemStorage.  A Map is the sequence of its entries in *)
(* insertion order; set() replaces the value of a key it holds and appends *)
(* a new key.                                                              *)
(***************************************************************************)
MapHas(map, key) == \E i \in 1..Len(map) : map[i].key = key

\* A map rebuilt around the entry: the entries it held are gone.
MapSetFresh(map, key, value) == << [key |-> key, value |-> value] >>

MapSet(map, key, value) ==
    IF MapHas(map, key)
    THEN [i \in 1..Len(map) |->
            IF map[i].key = key THEN [key |-> key, value |-> value] ELSE map[i]]
    ELSE Append(map, [key |-> key, value |-> value])

\* Array.from(map.values())
MapValues(map) == [i \in 1..Len(map) |-> map[i].value]

\* A nullable value is << >> (null or undefined) or << v >>.
Null == << >>

Some(v) == << v >>

\* a ?? b
Coalesce(a, b) == IF a = Null THEN b ELSE a

\* The identifier the record before took: the new record replaces it.
TakenQueryIdReused(currentId) == IF currentId > 1 THEN currentId - 1 ELSE currentId

\* createQuery: the identifier taken by this.queryCurrentId++ ...
TakenQueryId(currentId) == currentId

\* The counter left as it was: the next record takes the same identifier.
NextQueryIdStuck(currentId) == currentId

\* ... and the counter it leaves.
NextQueryId(currentId) == currentId + 1

\* createQuery: the record built from the insert, the identifier and the
\* clock (processingGb, summary and results default to null).
NewQuery(insertQuery, id, now) ==
    [id |-> id,
     prompt |-> insertQuery.prompt,
     sql |-> insertQuery.sql,
     projectId |-> insertQuery.projectId,
     dataset |-> insertQuery.dataset,
     processingGb |-> Coalesce(insertQuery.processingGb, Null),
     summary |-> Coalesce(insertQuery.summary, Null),
     results |-> Coalesce(insertQuery.results, Null),
     createdAt |-> now]

\* The comparator reversed (a.createdAt - b.createdAt): oldest first.
RECURSIVE InsertByCreatedAtAsc(_, _)
InsertByCreatedAtAsc(sorted, q) ==
    IF sorted = << >> THEN << q >>
    ELSE IF q.createdAt - Head(sorted).createdAt < 0
    THEN << q >> \o sorted
    ELSE << Head(sorted) >> \o InsertByCreatedAtAsc(Tail(sorted), q)

\* Array.prototype.sort with comparator b.createdAt - a.createdAt: a stable
\* sort, here by insertion of each record after the last record not older.
RECURSIVE InsertByCreatedAtDesc(_, _)
InsertByCreatedAtDesc(sorted, q) ==
    IF sorted = << >> THEN << q >>
    ELSE IF Head(sorted).createdAt - q.createdAt < 0
    THEN << q >> \o sorted
    ELSE << Head(sorted) >> \o InsertByCreatedAtDesc(Tail(sorted), q)

RECURSIVE SortByCreatedAtDesc(_)
SortByCreatedAtDesc(list) ==
    IF list = << >> THEN << >>
    ELSE InsertByCreatedAtDesc(
            SortByCreatedAtDesc(SubSeq(list, 1, Len(list) - 1)), list[Len(list)])

\* getQueries
getQueries(map) == SortByCreatedAtDesc(MapValues(map))

(***************************************************************************)
(* server/routes.ts: the texts and the response bodies of the handlers.    *)
(***************************************************************************)
HardcodedSql ==
    "SELECT COUNT(DISTINCT mmsi) AS unique_mmsi_count \n                    FROM 'wsdemo-457314.ais.fullais'"

\* The test without toLowerCase.
IsDemoPromptCaseSensitive(prompt) == includes(prompt, "unique") /\ includes(prompt, "mmsi")

\* generate's test for the demo prompt
IsDemoPrompt(prompt) ==
    includes(toLowerCase(prompt), "unique") /\ includes(toLowerCase(prompt), "mmsi")

\* validate's, summarize's and execute's test for the demo statement
IsDemoSql(sql) == includes(sql, "COUNT(DISTINCT mmsi)") /\ includes(sql, "fullais")

\* response.choices[0].message.content?.trim() || ""
ContentOrEmpty(content) == IF content = Null THEN "" ELSE trim(content[1])

\* generate's template when the LLM call throws
FallbackSql(projectId, dataset) ==
    "-- OpenAI API error occurred\nSELECT * FROM '" \o projectId \o "." \o dataset
        \o ".table_name' LIMIT 10"

\* the insert generate hands to createQuery
\* The insert with the dataset taken from the project field.
GenerateInsertSwapped(body, sql) ==
    [prompt |-> body.prompt, sql |-> sql, projectId |-> body.projectId,
     dataset |-> body.projectId, processingGb |-> Null, summary |-> Null, results |-> Null]

GenerateInsert(body, sql) ==
    [prompt |-> body.prompt, sql |-> sql, projectId |-> body.projectId,
     dataset |-> body.dataset, processingGb |-> Null, summary |-> Null,
     results |-> Null]

GenerateResponse(query) ==
    [status |-> 200, json |-> [id |-> query.id, sql |-> query.sql]]

DemoValidateResponse ==
    [status |-> 200,
     json |-> [valid |-> TRUE, processingGB |-> "2.5", message |-> "Query is valid",
               fixed |-> FALSE]]

\* validate: the first validation passed
ValidResponse(validationResult) ==
    [status |-> 200,
     json |-> [valid |-> validationResult.valid,
               processingGB |-> validationResult.processingGB,
               message |-> validationResult.message,
               fixed |-> FALSE]]

\* validate: the response after the repaired statement was validated
FixedResponse(fixedValidationResult, fixedSql) ==
    [status |-> 200,
     json |-> [valid |-> fixedValidationResult.valid,
               processingGB |-> fixedValidationResult.processingGB,
               message |-> fixedValidationResult.message,
               sql |-> fixedSql,
               fixed |-> TRUE]]

\* validate: the LLM call of the repair threw
UnfixedResponse(validationResult) ==
    [status |-> 200,
     json |-> [valid |-> validationResult.valid,
               processingGB |-> validationResult.processingGB,
               message |-> validationResult.message
                             \o " (AI assistant unavailable to fix query)",
               fixed |-> FALSE]]

DemoSummary ==
    "**This query counts the number of unique MMSI values in the dataset.**\n\n"
    \o "* **Operation**: SELECT query for data analysis\n"
    \o "* **Table**: 'wsdemo-457314.ais.fullais'\n"
    \o "* **Function**: COUNT with DISTINCT modifier\n"
    \o "* **Column**: mmsi (Maritime Mobile Service Identity)\n"
    \o "* **Purpose**: This counts how many unique vessels are in the dataset, as each MMSI uniquely identifies a vessel"

ReviewLine == "* Review the SQL code for the specific details of this "

\* summarize's text when the LLM call throws, by the statement's first word
BasicSummary(sql) ==
    LET head == toUpperCase(trim(sql))
    IN  "**Query Analysis**\n\n" \o
        (IF startsWith(head, "SELECT")
         THEN "* This is a SELECT query that retrieves data from the database\n"
              \o "* The query may include filtering, joining, or aggregation operations\n"
              \o ReviewLine \o "query"
         ELSE IF startsWith(head, "INSERT")
         THEN "* This is an INSERT query that adds new data to the database\n"
              \o "* The query will add new rows to a table\n"
              \o ReviewLine \o "operation"
         ELSE IF startsWith(head, "UPDATE")
         THEN "* This is an UPDATE query that modifies existing data\n"
              \o "* The query will change values in existing table rows\n"
              \o ReviewLine \o "operation"
         ELSE IF startsWith(head, "DELETE")
         THEN "* This is a DELETE query that removes data from the database\n"
              \o "* The query will remove rows from a table\n"
              \o ReviewLine \o "operation"
         ELSE IF startsWith(head, "CREATE")
         THEN "* This is a CREATE statement that adds new database objects\n"
              \o "* The statement will create new tables, views, or other database objects\n"
              \o ReviewLine \o "operation"
         ELSE "* This is a SQL statement that interacts with the database\n"
              \o ReviewLine \o "operation")

SummaryResponse(summary) == [status |-> 200, json |-> [summary |-> summary]]

DemoExecuteResponse ==
    [status |-> 200,
     json |-> [results |-> << [unique_mmsi_count |-> 152843] >>, operation |-> "READ"]]

\* The response without the normalisation of DDL to WRITE.
ExecuteResponseRaw(executionResult) ==
    IF ~executionResult.success
    THEN [status |-> 400, json |-> [message |-> executionResult.error]]
    ELSE IF executionResult.operation = "READ"
    THEN [status |-> 200,
          json |-> [results |-> executionResult.rows, operation |-> "READ"]]
    ELSE [status |-> 200,
          json |-> [affectedRows |-> executionResult.affectedRows,
                    operation |-> executionResult.operation,
                    message |->
                      IF executionResult.operation = "DDL"
                      THEN "Database structure modified successfully."
                      ELSE "Operation completed successfully. "
                           \o IntToString(executionResult.affectedRows)
                           \o " rows affected."]]

\* execute: the response shaped from executeQuery's result
ExecuteResponse(executionResult) ==
    IF ~executionResult.success
    THEN [status |-> 400, json |-> [message |-> executionResult.error]]
    ELSE IF executionResult.operation = "READ"
    THEN [status |-> 200,
          json |-> [results |-> executionResult.rows, operation |-> "READ"]]
    ELSE [status |-> 200,
          json |-> [affectedRows |-> executionResult.affectedRows,
                    operation |-> "WRITE",
                    message |->
                      IF executionResult.operation = "DDL"
                      THEN "Database structure modified successfully."
                      ELSE "Operation completed successfully. "
                           \o IntToString(executionResult.affectedRows)
                           \o " rows affected."]]

HistoryResponse(queries) == [status |-> 200, json |-> [queries |-> queries]]

(***************************************************************************)
(* The inputs of the model: request bodies, and what the LLM and the       *)
(* warehouse may answer.                                                   *)
(***************************************************************************)
ProjectIds == {"proj"}
Datasets == {"ds"}
Prompts == {"Unique MMSI", "top users"}

ValidateSqls == {"SELECT 1", "SELECT 2", " ", HardcodedSql}

SummarySqls ==
    {"select 1", " INSERT t", "Update t", "DELETE t", "create t", "WITH t", HardcodedSql}

DemoDelete == "DELETE FROM fullais WHERE 0 < (SELECT COUNT(DISTINCT mmsi))"

DemoExplain == "EXPLAIN SELECT COUNT(DISTINCT mmsi) FROM ais.fullais"

ExecuteSqls ==
    {"SELECT 1", "\n with t", "Insert t", "UPDATE t", " delete t", "MERGE t",
     "CREATE t", "drop t", "ALTER t", "\ttruncate t", "-- c\nSELECT 1", "EXPLAIN t",
     HardcodedSql, DemoDelete, DemoExplain}

\* The bodies the schema accepts ...
GoodBodies(textKey, texts) ==
    {[k \in {textKey, "projectId", "dataset"} |->
        IF k = textKey THEN t ELSE IF k = "projectId" THEN p ELSE d] :
     t \in texts, p \in ProjectIds, d \in Datasets}

\* ... and the ones it rejects: a good body with one key emptied or missing,
\* and the body with no key at all.
BadBodies(textKey, text) ==
    UNION {{[b EXCEPT ![gone] = ""], [k \in (DOMAIN b) \ {gone} |-> b[k]]} :
           b \in GoodBodies(textKey, {text}), gone \in {textKey, "projectId", "dataset"}}
        \cup {<< >>}

Bodies(textKey, texts, text) == GoodBodies(textKey, texts) \cup BadBodies(textKey, text)

GenerateBodies == Bodies("prompt", Prompts, "top users")
GoodGenerateBodies == GoodBodies("prompt", Prompts)
ValidateBodies == Bodies("sql", ValidateSqls, "SELECT 1")
SummaryBodies == Bodies("sql", SummarySqls, "SELECT 1")
ExecuteBodies == Bodies("sql", ExecuteSqls, "SELECT 1")

\* The content of an LLM reply: none, or a text.
LlmContents == {Null, Some("  SELECT 2\n")}

\* The outcome of a warehouse dry run.
DryRunOutcomes ==
    {[ok |-> TRUE, bytes |-> 1500000000], [ok |-> FALSE, message |-> "Syntax error"]}

RowSets == {<< >>, << [field1 |-> "value1"] >>}

\* The outcome of running a statement of the given type.
ExecuteOutcomes(queryType) ==
    IF queryType = "READ"
    THEN {[ok |-> TRUE, rows |-> rows] : rows \in RowSets}
         \cup {[ok |-> FALSE, message |-> "Not found"]}
    ELSE {[ok |-> TRUE, numDmlAffectedRows |-> n] : n \in {0, 3}}
         \cup {[ok |-> FALSE, message |-> "Not found"]}

(***************************************************************************)
(* A request in a handler.  Each handler is cut at its awaits of the LLM   *)
(* and of the warehouse: a segment maps the request, and what the awaited  *)
(* call returned or threw, to the request at the next await or to its      *)
(* response.  llmCalls, validateCalls, dryRuns, executeCalls and threw     *)
(* record the calls the handler made and whether one of them threw.        *)
(***************************************************************************)
NewRequest(kind, body) ==
    [pc |-> "start", kind |-> kind, body |-> body,
     llmCalls |-> 0, validateCalls |-> 0, dryRuns |-> 0, executeCalls |-> 0,
     threw |-> FALSE, first |-> Null, fixedSql |-> Null, toStore |-> Null,
     queryType |-> "", arrival |-> 0, responses |-> 0, status |-> 0,
     json |-> << >>]

\* res.status(...).json(...)
Respond(r, response) ==
    [r EXCEPT !.pc = "done", !.status = response.status, !.json = response.json,
              !.responses = r.responses + 1]

(***************************************************************************)
(* POST /api/generate-sql                                                  *)
(***************************************************************************)
\* Up to the first await: the 400 of a body the schema rejects, the demo
\* statement to store (no LLM call), or the LLM call.
GenerateStart(body) ==
    LET r == NewRequest("generate", body)
    IN  IF ~ParseOk(promptSchema, body)
        THEN Respond(r, handleValidationError(ZodError(promptSchema, body)))
        ELSE IF IsDemoPrompt(body.prompt)
        THEN [r EXCEPT !.pc = "store", !.toStore = Some(HardcodedSql)]
        ELSE [r EXCEPT !.pc = "llm", !.llmCalls = 1]

\* The LLM answered: its trimmed content is the statement to store.
GenerateAfterLlm(r, content) ==
    [r EXCEPT !.pc = "store", !.toStore = Some(ContentOrEmpty(content))]

\* The LLM call threw: the template is the statement to store.
GenerateAfterThrow(r) ==
    [r EXCEPT !.pc = "store", !.threw = TRUE,
              !.toStore = Some(FallbackSql(r.body.projectId, r.body.dataset))]

\* The record createQuery builds for the request, and the response with it.
GenerateQuery(r, currentId, now) ==
    NewQuery(GenerateInsert(r.body, r.toStore[1]), TakenQueryId(currentId), now)

GenerateStored(r, query) == Respond(r, GenerateResponse(query))

(***************************************************************************)
(* POST /api/validate-sql                                                  *)
(***************************************************************************)
\* A repair loop: a repaired statement that is invalid too is repaired again.
AfterFixRetry(r, fixedSql, fixedValidationResult) ==
    IF fixedValidationResult.valid
    THEN Respond([r EXCEPT !.fixedSql = Some(fixedSql)],
                 FixedResponse(fixedValidationResult, fixedSql))
    ELSE [r EXCEPT !.pc = "fixLlm", !.fixedSql = Some(fixedSql),
                   !.llmCalls = r.llmCalls + 1]

\* The request after the repaired statement fixedSql was validated.
AfterFix(r, fixedSql, fixedValidationResult) ==
    Respond([r EXCEPT !.fixedSql = Some(fixedSql)],
            FixedResponse(fixedValidationResult, fixedSql))

\* The request once the first validation gave validationResult: the response
\* of a valid statement, or the LLM call of the repair.
AfterFirstValidation(r, validationResult) ==
    IF validationResult.valid
    THEN Respond([r EXCEPT !.first = Some(validationResult)],
                 ValidResponse(validationResult))
    ELSE [r EXCEPT !.first = Some(validationResult), !.pc = "fixLlm",
                   !.llmCalls = r.llmCalls + 1]

\* Up to the first await: the 400, the demo shortcut, validateQuery's guard
\* on a blank statement (and then the repair's LLM call), or the dry run.
ValidateStart(body) ==
    LET r == NewRequest("validate", body)
    IN  IF ~ParseOk(validationSchema, body)
        THEN Respond(r, handleValidationError(ZodError(validationSchema, body)))
        ELSE IF IsDemoSql(body.sql)
        THEN Respond(r, DemoValidateResponse)
        ELSE IF IsBlankSql(body.sql)
        THEN AfterFirstValidation([r EXCEPT !.validateCalls = 1], ValidateEmpty)
        ELSE [r EXCEPT !.pc = "dryRun", !.validateCalls = 1, !.dryRuns = 1]

\* The first dry run returned or threw.
ValidateAfterDryRun(r, outcome) ==
    AfterFirstValidation([r EXCEPT !.threw = r.threw \/ ~outcome.ok],
                         ValidateFromDryRun(outcome))

\* The LLM answered the repair: its trimmed content is validated.
ValidateAfterFix(r, content) ==
    LET fixedSql == ContentOrEmpty(content)
        called == [r EXCEPT !.validateCalls = r.validateCalls + 1]
    IN  IF IsBlankSql(fixedSql)
        THEN AfterFix(called, fixedSql, ValidateEmpty)
        ELSE [called EXCEPT !.pc = "fixDryRun", !.fixedSql = Some(fixedSql),
                            !.dryRuns = r.dryRuns + 1]

\* The LLM call of the repair threw: the first result is returned.
ValidateAfterFixThrow(r) ==
    Respond([r EXCEPT !.threw = TRUE], UnfixedResponse(r.first[1]))

\* The dry run of the repaired statement returned or threw.
ValidateAfterFixDryRun(r, outcome) ==
    AfterFix([r EXCEPT !.threw = r.threw \/ ~outcome.ok], r.fixedSql[1],
             ValidateFromDryRun(outcome))

(***************************************************************************)
(* POST /api/generate-summary                                              *)
(***************************************************************************)
SummaryStart(body) ==
    LET r == NewRequest("summary", body)
    IN  IF ~ParseOk(validationSchema, body)
        THEN Respond(r, handleValidationError(ZodError(validationSchema, body)))
        ELSE IF IsDemoSql(body.sql)
        THEN Respond(r, SummaryResponse(DemoSummary))
        ELSE [r EXCEPT !.pc = "llm", !.llmCalls = 1]

SummaryAfterLlm(r, content) == Respond(r, SummaryResponse(ContentOrEmpty(content)))

\* The failure of the LLM call left unanswered.
SummaryAfterThrowSilent(r) == [r EXCEPT !.pc = "failed", !.threw = TRUE]

SummaryAfterThrow(r) ==
    Respond([r EXCEPT !.threw = TRUE], SummaryResponse(BasicSummary(r.body.sql)))

(***************************************************************************)
(* POST /api/execute-sql                                                   *)
(***************************************************************************)
\* Up to the await inside executeQuery: the 400 of a rejected body, the demo
\* shortcut, the 400 of a statement of unknown type, or the warehouse call.
ExecuteStart(body) ==
    LET r == NewRequest("execute", body)
    IN  IF ~ParseOk(executionSchema, body)
        THEN Respond(r, handleValidationError(ZodError(executionSchema, body)))
        ELSE IF IsDemoSql(body.sql)
        THEN Respond(r, DemoExecuteResponse)
        ELSE LET queryType == getQueryType(body.sql)
             IN  IF queryType = "UNKNOWN"
                 THEN Respond(r, ExecuteResponse(ExecuteUnknown))
                 ELSE [r EXCEPT !.pc = "warehouse", !.executeCalls = 1,
                                !.queryType = queryType]

\* The warehouse returned or threw; queryType was computed before the await.
ExecuteAfterWarehouse(r, outcome) ==
    Respond([r EXCEPT !.threw = ~outcome.ok],
            ExecuteResponse(ExecuteFromWarehouse(r.queryType, outcome)))

(***************************************************************************)
(* GET /api/query-history                                                  *)
(***************************************************************************)
HistoryRequest(map) ==
    Respond(NewRequest("history", << >>), HistoryResponse(getQueries(map)))

(***************************************************************************)
(* The state of the server.                                                *)
(***************************************************************************)
VARIABLES
    queryStore,       \* MemStorage.queryStore
    queryCurrentId,   \* MemStorage.queryCurrentId
    issued,           \* history: the identifiers createQuery returned, in order
    slots             \* the requests being handled, and their responses

(***************************************************************************)
(* The state of the Home page of the client.                               *)
(***************************************************************************)
VARIABLES
    activeStep,       \* useState<Step>("prompt")
    projectId,        \* useState<string>("")
    dataset,          \* useState<string>("")
    prompt,           \* useState<string>("")
    sql,              \* useState<string>("")
    validationResult, \* useState<any>(null)
    summary,          \* useState<string>("")
    results,          \* useState<any[]>([]); Null once set to undefined
    toast,            \* the toast the last step raised, Null if it raised none
    pending,          \* the calls of the mutations in flight, oldest first
    lastEvent         \* history: the event of the last step of the page

(***************************************************************************)
(* The state of the QueryResults table of the client.                      *)
(***************************************************************************)
VARIABLES
    tableResults,     \* props.results
    csv,              \* the text handleExport made last, Null before the first
    rowsPerPage,      \* useState("10")
    currentPage       \* useState(1)

table == << tableResults, csv, rowsPerPage, currentPage >>

VARIABLES
    lastCall          \* history: the call made on the storage directly, and its return

\* No call was made.
NoCall == [method |-> "none"]

VARIABLES
    checked           \* history, kept in CheckedSpec and Null elsewhere: the SQL the
                      \* page last saw validated, and the SQL its summary was made for

server == << queryStore, queryCurrentId, issued, slots >>

client == << activeStep, projectId, dataset, prompt, sql, validationResult,
             summary, results, toast, pending, lastEvent >>

vars == << server, client, table, lastCall, checked >>

store == << queryStore, queryCurrentId, issued >>

Slots == 1..MaxInFlight

IdleSlot == [pc |-> "idle"]

InFlightGenerates ==
    Cardinality({s \in Slots : slots[s].pc = "llm" /\ slots[s].kind = "generate"})

\* The store as its constructor leaves it, and no request yet.
ServerInit ==
    /\ queryStore = << >>
    /\ queryCurrentId = 1
    /\ issued = << >>
    /\ slots = [s \in Slots |-> IdleSlot]

\* The Home page as it mounts.
HomeInit ==
    /\ activeStep = "prompt"
    /\ projectId = ""
    /\ dataset = ""
    /\ prompt = ""
    /\ sql = ""
    /\ validationResult = Null
    /\ summary = ""
    /\ results = Some(<< >>)
    /\ toast = Null
    /\ pending = << >>
    /\ lastEvent = [type |-> "load", kind |-> "", from |-> "prompt"]

Init ==
    /\ ServerInit
    /\ HomeInit
    /\ tableResults = << >>
    /\ csv = Null
    /\ rowsPerPage = "10"
    /\ currentPage = 1
    /\ lastCall = NoCall
    /\ checked = Null

\* The handler's segment leaves slot s with request r; a generate request
\* with a statement to store goes through storage.createQuery first.
Continue(s, r, now) ==
    IF r.pc = "store"
    THEN LET query == GenerateQuery(r, queryCurrentId, now)
         IN  /\ queryCurrentId' = NextQueryId(queryCurrentId)
             /\ queryStore' = MapSet(queryStore, query.id, query)
             /\ issued' = Append(issued, query.id)
             /\ slots' = [slots EXCEPT ![s] = GenerateStored(r, query)]
             /\ UNCHANGED << client, table, lastCall, checked >>
    ELSE /\ slots' = [slots EXCEPT ![s] = r]
         /\ UNCHANGED << store, client, table, lastCall, checked >>

\* history: the generate requests accepted so far, stored or waiting
Arrivals == Len(issued) + InFlightGenerates

ReceiveGenerate(s, bodies) ==
    /\ slots[s].pc = "idle"
    /\ queryCurrentId + InFlightGenerates <= MaxRecords
    /\ \E body \in bodies, now \in 0..MaxTime :
        Continue(s, [GenerateStart(body) EXCEPT !.arrival = Arrivals], now)

GenerateLlmReturn(s) ==
    /\ slots[s].pc = "llm"
    /\ slots[s].kind = "generate"
    /\ \E content \in LlmContents, now \in 0..MaxTime :
        Continue(s, GenerateAfterLlm(slots[s], content), now)

GenerateLlmThrow(s) ==
    /\ slots[s].pc = "llm"
    /\ slots[s].kind = "generate"
    /\ \E now \in 0..MaxTime : Continue(s, GenerateAfterThrow(slots[s]), now)

ReceiveValidate(s) ==
    /\ slots[s].pc = "idle"
    /\ \E body \in ValidateBodies : slots' = [slots EXCEPT ![s] = ValidateStart(body)]
    /\ UNCHANGED << store, client, table, lastCall, checked >>

ValidateDryRunReturn(s) ==
    /\ slots[s].pc = "dryRun"
    /\ \E outcome \in DryRunOutcomes :
        slots' = [slots EXCEPT ![s] = ValidateAfterDryRun(slots[s], outcome)]
    /\ UNCHANGED << store, client, table, lastCall, checked >>

ValidateFixReturn(s) ==
    /\ slots[s].pc = "fixLlm"
    /\ \E content \in LlmContents :
        slots' = [slots EXCEPT ![s] = ValidateAfterFix(slots[s], content)]
    /\ UNCHANGED << store, client, table, lastCall, checked >>

ValidateFixThrow(s) ==
    /\ slots[s].pc = "fixLlm"
    /\ slots' = [slots EXCEPT ![s] = ValidateAfterFixThrow(slots[s])]
    /\ UNCHANGED << store, client, table, lastCall, checked >>

ValidateFixDryRunReturn(s) ==
    /\ slots[s].pc = "fixDryRun"
    /\ \E outcome \in DryRunOutcomes :
        slots' = [slots EXCEPT ![s] = ValidateAfterFixDryRun(slots[s], outcome)]
    /\ UNCHANGED << store, client, table, lastCall, checked >>

ReceiveSummary(s) ==
    /\ slots[s].pc = "idle"
    /\ \E body \in SummaryBodies : slots' = [slots EXCEPT ![s] = SummaryStart(body)]
    /\ UNCHANGED << store, client, table, lastCall, checked >>

\* The summary saved to the record created last.
SummaryLlmReturnSaving(s) ==
    /\ slots[s].pc = "llm"
    /\ slots[s].kind = "summary"
    /\ \E content \in LlmContents :
        LET r == SummaryAfterLlm(slots[s], content)
        IN  /\ slots' = [slots EXCEPT ![s] = r]
            /\ queryStore' = [i \in 1..Len(queryStore) |->
                                IF i = Len(queryStore)
                                THEN [queryStore[i] EXCEPT !.value.summary = Some(r.json)]
                                ELSE queryStore[i]]
    /\ UNCHANGED << queryCurrentId, issued, client, table, lastCall, checked >>

SummaryLlmReturn(s) ==
    /\ slots[s].pc = "llm"
    /\ slots[s].kind = "summary"
    /\ \E content \in LlmContents :
        slots' = [slots EXCEPT ![s] = SummaryAfterLlm(slots[s], content)]
    /\ UNCHANGED << store, client, table, lastCall, checked >>

SummaryLlmThrow(s) ==
    /\ slots[s].pc = "llm"
    /\ slots[s].kind = "summary"
    /\ slots' = [slots EXCEPT ![s] = SummaryAfterThrow(slots[s])]
    /\ UNCHANGED << store, client, table, lastCall, checked >>

ReceiveExecute(s) ==
    /\ slots[s].pc = "idle"
    /\ \E body \in ExecuteBodies : slots' = [slots EXCEPT ![s] = ExecuteStart(body)]
    /\ UNCHANGED << store, client, table, lastCall, checked >>

ExecuteWarehouseReturn(s) ==
    /\ slots[s].pc = "warehouse"
    /\ \E outcome \in ExecuteOutcomes(slots[s].queryType) :
        slots' = [slots EXCEPT ![s] = ExecuteAfterWarehouse(slots[s], outcome)]
    /\ UNCHANGED << store, client, table, lastCall, checked >>

History(s) ==
    /\ slots[s].pc = "idle"
    /\ slots' = [slots EXCEPT ![s] = HistoryRequest(queryStore)]
    /\ UNCHANGED << store, client, table, lastCall, checked >>

\* The response has left; the slot takes the next request.
Close(s) ==
    /\ slots[s].pc = "done"
    /\ slots' = [slots EXCEPT ![s] = IdleSlot]
    /\ UNCHANGED << store, client, table, lastCall, checked >>

(***************************************************************************)
(* Spec: one request at a time through every endpoint.  The handlers of    *)
(* validate, summarize and execute read and write nothing that another     *)
(* request can see, so their interleavings add no behaviour; the handlers  *)
(* that share the record store are interleaved in StoreSpec.               *)
(***************************************************************************)
Next ==
    \E s \in {1} :
        \/ ReceiveGenerate(s, GenerateBodies)
        \/ GenerateLlmReturn(s)
        \/ GenerateLlmThrow(s)
        \/ ReceiveValidate(s)
        \/ ValidateDryRunReturn(s)
        \/ ValidateFixReturn(s)
        \/ ValidateFixThrow(s)
        \/ ValidateFixDryRunReturn(s)
        \/ ReceiveSummary(s)
        \/ SummaryLlmReturn(s)
        \/ SummaryLlmThrow(s)
        \/ ReceiveExecute(s)
        \/ ExecuteWarehouseReturn(s)
        \/ History(s)
        \/ Close(s)

Spec == Init /\ [][Next]_vars

\* An external call of the request in slot s returns or throws.
ExternalCallEnds(s) ==
    \/ GenerateLlmReturn(s)
    \/ GenerateLlmThrow(s)
    \/ ValidateDryRunReturn(s)
    \/ ValidateFixReturn(s)
    \/ ValidateFixThrow(s)
    \/ ValidateFixDryRunReturn(s)
    \/ SummaryLlmReturn(s)
    \/ SummaryLlmThrow(s)
    \/ ExecuteWarehouseReturn(s)

\* LiveSpec: Spec with every LLM call and every warehouse call ending: no
\* handler waits for ever at an await.
LiveSpec == Spec /\ \A s \in {1} : WF_vars(ExternalCallEnds(s))

(***************************************************************************)
(* StoreSpec: up to MaxInFlight concurrent generate requests, the only     *)
(* handler that writes the record store, interleaved at their awaits.      *)
(***************************************************************************)
StoreNext ==
    \E s \in Slots :
        \/ ReceiveGenerate(s, GoodGenerateBodies)
        \/ GenerateLlmReturn(s)
        \/ GenerateLlmThrow(s)
        \/ Close(s)

StoreSpec == Init /\ [][StoreNext]_vars

(***************************************************************************)
(* StorageSpec: the storage on its own, createQuery and updateQuery called *)
(* directly with every insert and every partial update of the sets below.  *)
(***************************************************************************)
InsertQueries ==
    {[prompt |-> "top users", sql |-> "SELECT 1", projectId |-> "proj", dataset |-> "ds",
      processingGb |-> Null, summary |-> Null, results |-> Null],
     [prompt |-> "top users", sql |-> "SELECT 1", projectId |-> "proj", dataset |-> "ds",
      processingGb |-> Some("1.00"), summary |-> Some("old"), results |-> Null]}

\* Partial<InsertQuery>: any of the insert's keys, the nullable ones null
\* or set.
PartialQueries ==
    {[sql |-> "SELECT 2", summary |-> Some("new")],
     [processingGb |-> Some("2.00"), summary |-> Null],
     [processingGb |-> Null, summary |-> Null, results |-> Null]}

\* The identifiers asked for: those in use and one that is not.
QueryIds == 1..(MaxRecords + 1)

\* this.queryStore.get(id), for a key the map holds
MapGet(map, key) == map[CHOOSE i \in 1..Len(map) : map[i].key = key].value

\* partialQuery[key] ?? existingQuery[key]
NullishOr(partialQuery, existingQuery, key) ==
    IF key \in DOMAIN partialQuery /\ partialQuery[key] # Null
    THEN partialQuery[key]
    ELSE existingQuery[key]

\* updateQuery: processedPartial
processedPartial(existingQuery, partialQuery) ==
    [key \in DOMAIN partialQuery \cup {"processingGb", "summary", "results"} |->
        IF key \in {"processingGb", "summary", "results"}
        THEN NullishOr(partialQuery, existingQuery, key)
        ELSE partialQuery[key]]

\* { ...a, ...b }[key], for a key of the record a
SpreadAt(a, b, key) == IF key \in DOMAIN b THEN b[key] ELSE a[key]

\* { ...a, ...b }, for a record a of the queries table
Spread(a, b) ==
    [id |-> SpreadAt(a, b, "id"),
     prompt |-> SpreadAt(a, b, "prompt"),
     sql |-> SpreadAt(a, b, "sql"),
     projectId |-> SpreadAt(a, b, "projectId"),
     dataset |-> SpreadAt(a, b, "dataset"),
     processingGb |-> SpreadAt(a, b, "processingGb"),
     summary |-> SpreadAt(a, b, "summary"),
     results |-> SpreadAt(a, b, "results"),
     createdAt |-> SpreadAt(a, b, "createdAt")]

\* The update spread over the record as it is given: a null in it replaces
\* the record's value.
updatedQueryUnprocessed(existingQuery, partialQuery) == Spread(existingQuery, partialQuery)

\* updateQuery: updatedQuery
updatedQuery(existingQuery, partialQuery) ==
    Spread(existingQuery, processedPartial(existingQuery, partialQuery))

createQuery ==
    /\ queryCurrentId <= MaxRecords
    /\ \E insertQuery \in InsertQueries, now \in 0..MaxTime :
        LET query == NewQuery(insertQuery, TakenQueryId(queryCurrentId), now)
        IN  /\ queryCurrentId' = NextQueryId(queryCurrentId)
            /\ queryStore' = MapSet(queryStore, query.id, query)
            /\ issued' = Append(issued, query.id)
            /\ lastCall' = [method |-> "createQuery", id |-> query.id,
                            partialQuery |-> insertQuery, returned |-> Some(query)]
    /\ UNCHANGED << slots, client, table, checked >>

updateQuery ==
    /\ \E id \in QueryIds, partialQuery \in PartialQueries :
        IF ~MapHas(queryStore, id)
        THEN /\ lastCall' = [method |-> "updateQuery", id |-> id,
                             partialQuery |-> partialQuery, returned |-> Null]
             /\ UNCHANGED queryStore
        ELSE LET query == updatedQuery(MapGet(queryStore, id), partialQuery)
             IN  /\ queryStore' = MapSet(queryStore, id, query)
                 /\ lastCall' = [method |-> "updateQuery", id |-> id,
                                 partialQuery |-> partialQuery, returned |-> Some(query)]
    /\ UNCHANGED << queryCurrentId, issued, slots, client, table, checked >>

StorageNext ==
    \/ createQuery
    \/ updateQuery

StorageSpec == Init /\ [][StorageNext]_vars

(***************************************************************************)
(* The client: the Home page, its four mutations and its event handlers.   *)
(***************************************************************************)
MaxPending == 1

Steps == << "prompt", "generate", "validate", "summary", "execute" >>

StepIndex(step) == CHOOSE i \in 1..Len(Steps) : Steps[i] = step

Mutations == {"generate", "validate", "summary", "execute"}

\* What the user types into the prompt and into the SQL editor.
TypedPrompts == {"", "top users"}
TypedSqls == {"", "CREATE t"}

\* The part of the page's state that the mutations' callbacks write.
Home ==
    [activeStep |-> activeStep, sql |-> sql, validationResult |-> validationResult,
     summary |-> summary, results |-> results, toast |-> Null]

Toast(title, description, variant) ==
    Some([title |-> title, description |-> description, variant |-> variant])

\* data.key, Null when the response has no such key (undefined)
Field(data, key) == IF key \in DOMAIN data THEN Some(data[key]) ELSE Null

\* data.sql || ""
SqlOrEmpty(data) == IF "sql" \in DOMAIN data THEN data.sql ELSE ""

\* sqlMutation
sqlOnSuccess(h, data) ==
    [h EXCEPT !.sql = data.sql,
              !.activeStep = "generate",
              !.toast = Toast("SQL Generated",
                              "SQL query has been generated successfully", "default")]

\* An onError that also sends the page back to its first step.
sqlOnErrorReset(h, error) ==
    [h EXCEPT !.activeStep = "prompt",
              !.toast = Toast("Error", MessageOr(error.message, "Failed to generate SQL"),
                              "destructive")]

sqlOnError(h, error) ==
    [h EXCEPT !.toast = Toast("Error", MessageOr(error.message, "Failed to generate SQL"),
                              "destructive")]

\* An onSuccess that shows the validate step whatever the answer says.
validateOnSuccessAdvancing(h, data) ==
    [h EXCEPT !.validationResult = Some(data),
              !.sql = IF data.fixed THEN SqlOrEmpty(data) ELSE h.sql,
              !.activeStep = "validate",
              !.toast = Null]

\* validateMutation
validateOnSuccess(h, data) ==
    LET set == [h EXCEPT !.validationResult = Some(data)]
        fixed == IF data.fixed
                 THEN [set EXCEPT !.sql = SqlOrEmpty(data),
                                  !.toast = Toast("SQL Fixed",
                                      "The SQL has been automatically fixed", "default")]
                 ELSE set
    IN  IF data.valid
        THEN [fixed EXCEPT !.activeStep = "validate",
                           !.toast = Toast("SQL Validated",
                               "Query is valid and will process approximately "
                                 \o data.processingGB \o " GB", "default")]
        ELSE [fixed EXCEPT !.toast = Toast("Validation Failed",
                               MessageOr(data.message, "Failed to validate SQL"),
                               "destructive")]

validateOnError(h, error) ==
    [h EXCEPT !.toast = Toast("Error", MessageOr(error.message, "Failed to validate SQL"),
                              "destructive")]

\* summaryMutation
summaryOnSuccess(h, data) ==
    [h EXCEPT !.summary = data.summary,
              !.activeStep = "summary",
              !.toast = Toast("Summary Generated",
                              "Query summary has been generated successfully", "default")]

summaryOnError(h, error) ==
    [h EXCEPT !.toast = Toast("Error", MessageOr(error.message, "Failed to generate summary"),
                              "destructive")]

\* executeMutation; data.results is undefined in the response to a WRITE
executeOnSuccess(h, data) ==
    [h EXCEPT !.results = Field(data, "results"),
              !.activeStep = "execute",
              !.toast = Toast("Query Executed",
                              "SQL query has been executed successfully", "default")]

executeOnError(h, error) ==
    [h EXCEPT !.toast = Toast("Error", MessageOr(error.message, "Failed to execute SQL"),
                              "destructive")]

OnSuccess(kind, h, data) ==
    IF kind = "generate" THEN sqlOnSuccess(h, data)
    ELSE IF kind = "validate" THEN validateOnSuccess(h, data)
    ELSE IF kind = "summary" THEN summaryOnSuccess(h, data)
    ELSE executeOnSuccess(h, data)

OnError(kind, h, error) ==
    IF kind = "generate" THEN sqlOnError(h, error)
    ELSE IF kind = "validate" THEN validateOnError(h, error)
    ELSE IF kind = "summary" THEN summaryOnError(h, error)
    ELSE executeOnError(h, error)

\* No guard: the call is posted whatever the inputs are.
LocalErrorNever(kind) == Null

\* The guard at the head of each mutationFn: the error it throws, or Null.
LocalError(kind) ==
    IF kind = "generate"
    THEN IF prompt = "" \/ projectId = "" \/ dataset = ""
         THEN Some([message |-> "Please provide a prompt, project ID, and dataset"])
         ELSE Null
    ELSE IF sql = "" \/ projectId = "" \/ dataset = ""
         THEN Some([message |-> "Please provide SQL, project ID, and dataset"])
         ELSE Null

\* lib/openai.ts: the body each call posts
RequestBody(kind) ==
    IF kind = "generate"
    THEN [prompt |-> prompt, projectId |-> projectId, dataset |-> dataset]
    ELSE [sql |-> sql, projectId |-> projectId, dataset |-> dataset]

(***************************************************************************)
(* What a call can come back with: every response the handler can give to  *)
(* the body, over what the LLM and the warehouse do.  The page reads only  *)
(* the sql of a generate response, so the record is the one createQuery    *)
(* makes first, at time 0.                                                 *)
(***************************************************************************)
RECURSIVE Run(_)
Run(r) ==
    IF r.pc = "done" THEN {r}
    ELSE IF r.pc = "store"
    THEN Run(GenerateStored(r, GenerateQuery(r, 1, 0)))
    ELSE IF r.pc = "llm" /\ r.kind = "generate"
    THEN UNION {Run(GenerateAfterLlm(r, content)) : content \in LlmContents}
         \cup Run(GenerateAfterThrow(r))
    ELSE IF r.pc = "llm"
    THEN UNION {Run(SummaryAfterLlm(r, content)) : content \in LlmContents}
         \cup Run(SummaryAfterThrow(r))
    ELSE IF r.pc = "dryRun"
    THEN UNION {Run(ValidateAfterDryRun(r, outcome)) : outcome \in DryRunOutcomes}
    ELSE IF r.pc = "fixLlm"
    THEN UNION {Run(ValidateAfterFix(r, content)) : content \in LlmContents}
         \cup Run(ValidateAfterFixThrow(r))
    ELSE IF r.pc = "fixDryRun"
    THEN UNION {Run(ValidateAfterFixDryRun(r, outcome)) : outcome \in DryRunOutcomes}
    ELSE UNION {Run(ExecuteAfterWarehouse(r, outcome)) :
                outcome \in ExecuteOutcomes(r.queryType)}

Start(kind, body) ==
    IF kind = "generate" THEN GenerateStart(body)
    ELSE IF kind = "validate" THEN ValidateStart(body)
    ELSE IF kind = "summary" THEN SummaryStart(body)
    ELSE ExecuteStart(body)

Replies(kind, body) ==
    {[status |-> r.status, json |-> r.json] : r \in Run(Start(kind, body))}

\* lib/queryClient apiRequest: the parsed body of a 2xx response, and an
\* Error for any other status.
apiRequest(response) ==
    IF response.status \in 200..299
    THEN [ok |-> TRUE, data |-> response.json]
    ELSE [ok |-> FALSE,
          error |-> [message |-> IntToString(response.status) \o ": "
                                   \o response.json.message]]

\* fetch itself rejects: no response arrived.
NetworkFailure == [ok |-> FALSE, error |-> [message |-> "Failed to fetch"]]

CallOutcomes(kind, body) ==
    {apiRequest(response) : response \in Replies(kind, body)} \cup {NetworkFailure}

(***************************************************************************)
(* The page's steps.                                                       *)
(***************************************************************************)
\* mutation.isPending: the call the mutation made last is still in flight.
isPending(kind) ==
    \E i \in 1..Len(pending) : pending[i].kind = kind /\ pending[i].latest

\* results.length in the render throws once results is undefined and the
\* execute step is shown: the page is unmounted.
Crashed == activeStep = "execute" /\ results = Null

\* The panels the render shows.
ShowsMainPanel == activeStep \in {"generate", "validate", "summary", "execute"}

ShowsValidationResults ==
    activeStep \in {"validate", "summary", "execute"} /\ validationResult # Null

\* The summary panel, and its Approve button, on screen at every step.
ShowsQuerySummaryAlways == TRUE

ShowsQuerySummary == activeStep \in {"summary", "execute"} /\ summary # ""

Event(type, kind) == [type |-> type, kind |-> kind, from |-> activeStep]

\* The callbacks' writes.
Apply(h) ==
    /\ activeStep' = h.activeStep
    /\ sql' = h.sql
    /\ validationResult' = h.validationResult
    /\ summary' = h.summary
    /\ results' = h.results
    /\ toast' = h.toast

\* The calls in flight are bounded: MaxPending calls, and one more when all
\* of them are of the kind of the new one.
MayPost(kind) ==
    \/ Len(pending) < MaxPending
    \/ /\ Len(pending) = MaxPending
       /\ \A i \in 1..Len(pending) : pending[i].kind = kind

\* mutation.mutate(): mutationFn throws at its guard, and onError runs, or
\* posts the call.
Mutate(kind) ==
    /\ ~Crashed
    /\ IF LocalError(kind) # Null
       THEN /\ Apply(OnError(kind, Home, LocalError(kind)[1]))
            /\ lastEvent' = Event("reject", kind)
            /\ UNCHANGED pending
       ELSE /\ MayPost(kind)
            /\ pending' = Append([i \in 1..Len(pending) |->
                                    IF pending[i].kind = kind
                                    THEN [pending[i] EXCEPT !.latest = FALSE]
                                    ELSE pending[i]],
                                 [kind |-> kind, body |-> RequestBody(kind), latest |-> TRUE])
            /\ lastEvent' = Event("mutate", kind)
            /\ Apply(Home)
    /\ UNCHANGED << projectId, dataset, prompt, server, table, lastCall, checked >>

Without(seq, i) == SubSeq(seq, 1, i - 1) \o SubSeq(seq, i + 1, Len(seq))

\* history: how far the successes so far go along generate, then validate
\* answered valid, then summarize.
Progress(kind, data, progress) ==
    IF \/ kind = "generate" /\ progress = 0
       \/ kind = "validate" /\ data.valid /\ progress = 1
       \/ kind = "summary" /\ progress = 2
    THEN progress + 1
    ELSE progress

\* history: a validation answered valid is of the statement sent, or of the
\* repaired statement the answer carries; a summary is of the statement sent,
\* and so are the results of an execution.
Checked(call, data) ==
    IF checked = Null THEN checked
    ELSE LET advanced ==
                 [checked EXCEPT !.progress = Progress(call.kind, data, checked.progress)]
         IN  IF call.kind = "validate" /\ data.valid
             THEN [advanced EXCEPT !.validated = Some(IF data.fixed THEN SqlOrEmpty(data)
                                                                    ELSE call.body.sql)]
             ELSE IF call.kind = "summary"
             THEN [advanced EXCEPT !.summarized = Some(call.body.sql)]
             ELSE IF call.kind = "execute"
             THEN [advanced EXCEPT !.executed = Some(call.body.sql)]
             ELSE advanced

\* A call comes back and its mutation resolves: onSuccess runs.
Resolve(i) ==
    /\ ~Crashed
    /\ i \in 1..Len(pending)
    /\ \E outcome \in CallOutcomes(pending[i].kind, pending[i].body) :
        /\ outcome.ok
        /\ Apply(OnSuccess(pending[i].kind, Home, outcome.data))
        /\ checked' = Checked(pending[i], outcome.data)
    /\ lastEvent' = Event("resolve", pending[i].kind)
    /\ pending' = Without(pending, i)
    /\ UNCHANGED << projectId, dataset, prompt, server, table, lastCall >>

\* A call comes back and its mutation rejects: onError runs.
Reject(i) ==
    /\ ~Crashed
    /\ i \in 1..Len(pending)
    /\ \E outcome \in CallOutcomes(pending[i].kind, pending[i].body) :
        /\ ~outcome.ok
        /\ Apply(OnError(pending[i].kind, Home, outcome.error))
    /\ lastEvent' = Event("reject", pending[i].kind)
    /\ pending' = Without(pending, i)
    /\ UNCHANGED << projectId, dataset, prompt, server, table, lastCall, checked >>

\* PromptPanel: the selects and the textarea
SetProjectId ==
    /\ ~Crashed
    /\ ~isPending("generate")
    /\ \E value \in ProjectIds : projectId' = value
    /\ lastEvent' = Event("input", "")
    /\ toast' = Null
    /\ UNCHANGED << activeStep, dataset, prompt, sql, validationResult, summary,
                    results, pending, server, table, lastCall, checked >>

SetDataset ==
    /\ ~Crashed
    /\ ~isPending("generate")
    /\ \E value \in Datasets : dataset' = value
    /\ lastEvent' = Event("input", "")
    /\ toast' = Null
    /\ UNCHANGED << activeStep, projectId, prompt, sql, validationResult, summary,
                    results, pending, server, table, lastCall, checked >>

SetPrompt ==
    /\ ~Crashed
    /\ activeStep = "prompt"
    /\ ~isPending("generate")
    /\ \E value \in TypedPrompts : prompt' = value
    /\ lastEvent' = Event("input", "")
    /\ toast' = Null
    /\ UNCHANGED << activeStep, projectId, dataset, sql, validationResult, summary,
                    results, pending, server, table, lastCall, checked >>

\* MainPanel: SQLEditor onChange
SetSql ==
    /\ ~Crashed
    /\ ShowsMainPanel
    /\ \E value \in TypedSqls : sql' = value
    /\ lastEvent' = Event("input", "")
    /\ toast' = Null
    /\ UNCHANGED << activeStep, projectId, dataset, prompt, validationResult, summary,
                    results, pending, server, table, lastCall, checked >>

\* PromptPanel: Generate SQL
handlePromptSubmit ==
    /\ activeStep = "prompt"
    /\ ~(prompt = "" \/ projectId = "" \/ dataset = "" \/ isPending("generate"))
    /\ Mutate("generate")

\* MainPanel: Validate Query
handleValidate ==
    /\ ShowsMainPanel
    /\ ~(sql = "" \/ isPending("validate"))
    /\ Mutate("validate")

\* ValidationResults: Generate Summary
handleGenerateSummary ==
    /\ ShowsValidationResults
    /\ validationResult[1].valid
    /\ ~isPending("summary")
    /\ Mutate("summary")

\* QuerySummary: Approve
handleExecute ==
    /\ ShowsQuerySummary
    /\ ~isPending("execute")
    /\ Mutate("execute")

\* The step handleEdit sets.
EditStepPrompt == "prompt"

EditStep == "generate"

\* MainPanel: Edit, and QuerySummary: Modify
handleEdit ==
    /\ ~Crashed
    /\ ShowsMainPanel \/ ShowsQuerySummary
    /\ activeStep' = EditStep
    /\ lastEvent' = Event("edit", "")
    /\ toast' = Null
    /\ UNCHANGED << projectId, dataset, prompt, sql, validationResult, summary,
                    results, pending, server, table, lastCall, checked >>

\* MainPanel: Regenerate
handleRegenerate ==
    /\ ShowsMainPanel
    /\ Mutate("generate")

ClientNext ==
    \/ SetProjectId
    \/ SetDataset
    \/ SetPrompt
    \/ SetSql
    \/ handlePromptSubmit
    \/ handleValidate
    \/ handleGenerateSummary
    \/ handleExecute
    \/ handleEdit
    \/ handleRegenerate
    \/ \E i \in 1..(MaxPending + 1) : Resolve(i) \/ Reject(i)

ClientSpec == Init /\ [][ClientNext]_vars

(***************************************************************************)
(* CheckedSpec: the page with the history of what was validated and what   *)
(* was summarized kept.                                                    *)
(***************************************************************************)
\* Nothing was validated or summarized.
NotChecked == [validated |-> Null, summarized |-> Null, executed |-> Null, progress |-> 0]

CheckedInit ==
    /\ ServerInit
    /\ HomeInit
    /\ tableResults = << >>
    /\ csv = Null
    /\ rowsPerPage = "10"
    /\ currentPage = 1
    /\ lastCall = NoCall
    /\ checked = NotChecked

CheckedSpec == CheckedInit /\ [][ClientNext]_vars

(***************************************************************************)
(* The claims.                                                             *)
(***************************************************************************)
\* The requests of the given kinds that have been answered.
Answered(kinds) ==
    {slots[s] : s \in {t \in Slots : slots[t].pc = "done" /\ slots[t].kind \in kinds}}

FourKinds == {"generate", "validate", "summary", "execute"}

\* The text key a request of the kind must carry.
TextKey(kind) == IF kind = "generate" THEN "prompt" ELSE "sql"

\* A body with a required key missing or empty.
Defective(kind, body) ==
    \E k \in {TextKey(kind), "projectId", "dataset"} : k \notin DOMAIN body \/ body[k] = ""

\* C1: no two stored records share an identifier, and every record that
\* createQuery creates has an identifier strictly greater than that of every
\* record created before it; identifiers start at 1 and none is reused, so
\* every record created is still in the store under its own identifier.
C1_IdsUniqueIncreasing ==
    /\ \A i, j \in 1..Len(queryStore) :
        i # j => queryStore[i].value.id # queryStore[j].value.id
    /\ \A i \in 1..Len(issued) : \A j \in 1..(i - 1) : issued[j] < issued[i]
    /\ issued # << >> => issued[1] = 1
    /\ Len(queryStore) = Len(issued)
    /\ \A i \in 1..Len(issued) :
        queryStore[i].key = issued[i] /\ queryStore[i].value.id = issued[i]

\* Two concurrent generate requests were answered, the one in the later slot
\* first.
C1_Witness ==
    \E s, t \in Slots :
        /\ s < t
        /\ slots[s].pc = "done" /\ slots[s].kind = "generate" /\ slots[s].status = 200
        /\ slots[t].pc = "done" /\ slots[t].kind = "generate" /\ slots[t].status = 200
        /\ slots[s].llmCalls = 1 /\ slots[t].llmCalls = 1
        /\ slots[s].json.id = 2 /\ slots[t].json.id = 1

\* C2: a generate, validate, summarize or execute request whose prompt/sql,
\* projectId or dataset is missing or empty is answered 400 with a message
\* naming the problem, and its handler makes no LLM call, no warehouse call
\* and stores no record; no such request is ever waiting on an external call.
C2_EmptyRejectedBeforeCalls ==
    \A s \in Slots :
        (slots[s].pc # "idle" /\ slots[s].kind \in FourKinds
            /\ Defective(slots[s].kind, slots[s].body))
        => /\ slots[s].pc = "done"
           /\ slots[s].status = 400
           /\ DOMAIN slots[s].json = {"message"}
           /\ startsWith(slots[s].json.message, "Validation error: ")
           /\ \/ includes(slots[s].json.message, "Required")
              \/ includes(slots[s].json.message, "is required")
           /\ slots[s].llmCalls = 0
           /\ slots[s].validateCalls = 0
           /\ slots[s].dryRuns = 0
           /\ slots[s].executeCalls = 0
           /\ slots[s].toStore = Null

\* An execute request with an empty sql was answered 400, the store still
\* empty.
C2_Witness ==
    \E r \in Answered({"execute"}) :
        /\ "sql" \in DOMAIN r.body /\ r.body.sql = ""
        /\ r.body.projectId # "" /\ r.body.dataset # ""
        /\ r.status = 400

\* C3: a validate request makes the repair's LLM call at most once and at
\* most two dry runs (two validateQuery calls); once answered, the repair
\* was attempted exactly once if the first validation reported the statement
\* invalid and not at all if it reported it valid, and the repaired statement
\* was validated exactly once when the repair's LLM call returned.
C3_OneRepairAttempt ==
    \A s \in Slots :
        (slots[s].pc # "idle" /\ slots[s].kind = "validate")
        => LET r == slots[s]
           IN  /\ r.llmCalls <= 1
               /\ r.dryRuns <= 2
               /\ r.validateCalls <= 2
               /\ r.dryRuns <= r.validateCalls
               /\ (r.pc = "done" /\ r.first # Null /\ r.first[1].valid)
                    => r.llmCalls = 0 /\ r.validateCalls = 1 /\ r.fixedSql = Null
               /\ (r.pc = "done" /\ r.first # Null /\ ~r.first[1].valid)
                    => /\ r.llmCalls = 1
                       /\ r.validateCalls = (IF r.fixedSql = Null THEN 1 ELSE 2)
               /\ (r.pc = "done" /\ r.first = Null) => r.llmCalls = 0 /\ r.dryRuns = 0

\* The repaired statement was invalid too, and the request was answered after
\* one LLM call and two dry runs.
C3_Witness ==
    \E r \in Answered({"validate"}) :
        /\ r.first # Null /\ ~r.first[1].valid
        /\ r.fixedSql # Null
        /\ r.json.valid = FALSE
        /\ r.llmCalls = 1
        /\ r.dryRuns = 2

\* C4 (as claimed): the fixed flag of a validate response is true only when
\* the repaired text differs from the request's and was validated as valid.
C4_FixedOnlyWhenChangedAndValid ==
    \A r \in Answered({"validate"}) :
        (r.status = 200 /\ r.json.fixed)
        => /\ r.json.sql # r.body.sql
           /\ r.json.valid

\* The classification of a statement by the keyword that leads it, as the
\* claims give it.
Keywords ==
    {<<"SELECT", "READ">>, <<"WITH", "READ">>, <<"INSERT", "WRITE">>,
     <<"UPDATE", "WRITE">>, <<"DELETE", "WRITE">>, <<"MERGE", "WRITE">>,
     <<"CREATE", "DDL">>, <<"DROP", "DDL">>, <<"ALTER", "DDL">>, <<"TRUNCATE", "DDL">>}

LeadingClasses(text) ==
    LET upper == toUpperCase(trimStart(text))
    IN  {k[2] : k \in {kw \in Keywords : startsWith(upper, kw[1])}}

HasClass(text, class) == class \in LeadingClasses(text)

\* C5 (as claimed): a successful execute response carries rows for a READ
\* statement, and an affected-row count and no rows for a WRITE or DDL
\* statement, for every statement and every branch of the handler.
C5_PayloadMatchesClass ==
    \A r \in Answered({"execute"}) :
        r.status = 200
        => /\ HasClass(r.body.sql, "READ") => "results" \in DOMAIN r.json
           /\ (HasClass(r.body.sql, "WRITE") \/ HasClass(r.body.sql, "DDL"))
                => "affectedRows" \in DOMAIN r.json /\ "results" \notin DOMAIN r.json

\* C6 (as claimed): the operation of a successful execute response is the
\* class of the statement's leading keyword.
C6_OperationIsClass ==
    \A r \in Answered({"execute"}) :
        r.status = 200 => HasClass(r.body.sql, r.json.operation)

\* C6 (amended): the operation of a successful execute response is READ or
\* WRITE only: READ for a statement the demo shortcut serves and for one led
\* by SELECT or WITH, WRITE for one led by a WRITE or a DDL keyword (DDL is
\* reported as WRITE).
C6_OperationReadOrWrite ==
    \A r \in Answered({"execute"}) :
        r.status = 200
        => r.json.operation =
             (IF IsDemoSql(r.body.sql) \/ HasClass(r.body.sql, "READ")
              THEN "READ" ELSE "WRITE")

\* A DDL statement in lower case behind white space was run and answered
\* with operation WRITE.
C6_Witness ==
    \E r \in Answered({"execute"}) :
        /\ r.status = 200
        /\ r.body.sql = "\ttruncate t"
        /\ r.executeCalls = 1
        /\ r.json.operation = "WRITE"

\* A statement led by none of the keywords, which the demo shortcut does not
\* serve either.
Unclassified(text) == LeadingClasses(text) = {} /\ ~IsDemoSql(text)

C8_ForwardOnly ==
    [][/\ StepIndex(activeStep') >= StepIndex(activeStep)
       /\ activeStep' # activeStep
            => lastEvent'.type = "resolve" /\ lastEvent'.kind = activeStep']_vars

\* C8 (amended): activeStep never returns to prompt, and every change of it
\* is caused either by the successful completion of an external call, which
\* sets it to that call's own step (forward, or backward when the call was
\* made again from a later step), or by Edit/Modify, which sets it to
\* generate; no other step of the page, a failed call included, changes it.
C8_StepBySuccessOrEdit ==
    [][/\ activeStep' = "prompt" => activeStep = "prompt"
       /\ activeStep' # activeStep
            => \/ lastEvent'.type = "resolve" /\ lastEvent'.kind = activeStep'
               \/ lastEvent'.type = "edit" /\ activeStep' = "generate"]_vars

\* Edit or Modify has just taken the page from the execute step back to
\* generate, the results of the statement still held.
C8_Witness ==
    /\ lastEvent.type = "edit"
    /\ lastEvent.from = "execute"
    /\ activeStep = "generate"
    /\ results # Null

\* C9: when a generate, validate, summarize or execute call of the page
\* fails (its mutation rejects, at the guard on empty fields or on the
\* call), activeStep, sql, validationResult, summary and results are left
\* as they were and a destructive toast is raised.
C9_FailureLeavesState ==
    [][lastEvent'.type = "reject"
        => /\ activeStep' = activeStep
           /\ sql' = sql
           /\ validationResult' = validationResult
           /\ summary' = summary
           /\ results' = results
           /\ toast' # Null
           /\ toast'[1].variant = "destructive"
           /\ toast'[1].description # ""]_vars

\* The execute call was answered 400 at the summary step: the page is still
\* at summary, with its statement, validation result and summary, and shows
\* the error.
C9_Witness ==
    /\ lastEvent = [type |-> "reject", kind |-> "execute", from |-> "summary"]
    /\ activeStep = "summary"
    /\ sql # ""
    /\ validationResult # Null
    /\ summary # ""
    /\ toast = Toast("Error", "400: Not found", "destructive")

\* C10: the history listing returns every stored record, each once, ordered
\* by non-increasing createdAt: of two adjacent records of the list the
\* earlier one's createdAt is greater than or equal to the later one's.
C10_HistorySorted ==
    \A r \in Answered({"history"}) :
        LET q == r.json.queries
        IN  /\ r.status = 200
            /\ Len(q) = Len(queryStore)
            /\ \A k \in 1..Len(queryStore) : \E i \in 1..Len(q) : q[i] = queryStore[k].value
            /\ \A i, j \in 1..Len(q) : i # j => q[i].id # q[j].id
            /\ \A i \in 1..(Len(q) - 1) : q[i].createdAt >= q[i + 1].createdAt

\* The listing of two records, the one created second with the later
\* createdAt and so listed first.
C10_Witness ==
    \E r \in Answered({"history"}) :
        /\ Len(r.json.queries) = 2
        /\ r.json.queries[1].id = 2
        /\ r.json.queries[2].id = 1
        /\ r.json.queries[1].createdAt > r.json.queries[2].createdAt

\* The clock never stepped back between the records of the store: createdAt
\* is non-decreasing in creation order.
ClockNonDecreasing ==
    \A i, j \in 1..Len(queryStore) :
        queryStore[i].value.id < queryStore[j].value.id
        => queryStore[i].value.createdAt <= queryStore[j].value.createdAt

\* C11 (as claimed): the history listing is newest-first in creation order:
\* of two stored records the one created later (greater identifier) is
\* listed before the other, whatever non-decreasing timestamps the clock
\* gave them.
C11_NewestFirst ==
    \A r \in Answered({"history"}) :
        ClockNonDecreasing
        => \A i, j \in 1..Len(r.json.queries) :
            i < j => r.json.queries[i].id > r.json.queries[j].id

(***************************************************************************)
(* The QueryResults table: handleExport.  A cell of a row is a JSON value: *)
(* a string, a number, null or an array of such values; a row is its keys  *)
(* and values in the order of Object.keys.                                 *)
(***************************************************************************)
MaxRows == 2

Str(text) == [type |-> "string", text |-> text]
Num(n) == [type |-> "number", number |-> n]
NullValue == [type |-> "null"]
Arr(items) == [type |-> "array", items |-> items]

\* The cells the warehouse can put into a row.
CellValues ==
    {Str("a"), Str("a,b"), Str("x\",y"), Num(7), NullValue, Arr(<< Str("p"), Str("q") >>)}

Columns == << "c1", "c2" >>

Rows ==
    {[i \in 1..Len(Columns) |-> [key |-> Columns[i], value |-> cells[i]]] :
     cells \in [1..Len(Columns) -> CellValues]}

ResultSets == UNION {[1..n -> Rows] : n \in 1..MaxRows}

\* Object.keys(row)
ObjectKeys(row) == [i \in 1..Len(row) |-> row[i].key]

\* row[col], null standing for undefined too
Get(row, col) ==
    IF \E i \in 1..Len(row) : row[i].key = col
    THEN row[CHOOSE i \in 1..Len(row) : row[i].key = col].value
    ELSE NullValue

\* Array.prototype.join over texts
RECURSIVE JoinTexts(_, _)
JoinTexts(texts, separator) ==
    IF texts = << >> THEN ""
    ELSE IF Len(texts) = 1 THEN texts[1]
    ELSE texts[1] \o separator \o JoinTexts(Tail(texts), separator)

\* The text join gives an element: "" for null and undefined, String(value)
\* for the rest, which for an array is its own join(',').
RECURSIVE ElementText(_)
ElementText(value) ==
    IF value.type = "null" THEN ""
    ELSE IF value.type = "string" THEN value.text
    ELSE IF value.type = "number" THEN IntToString(value.number)
    ELSE JoinTexts([i \in 1..Len(value.items) |-> ElementText(value.items[i])], ",")

\* columns.map(col => ...): a string with a comma is wrapped in quotes
ExportCell(value) ==
    IF value.type = "string" /\ includes(value.text, ",")
    THEN Str("\"" \o value.text \o "\"")
    ELSE value

ExportLine(row, columns) ==
    JoinTexts([i \in 1..Len(columns) |-> ElementText(ExportCell(Get(row, columns[i])))], ",")

\* handleExport: the text of the download
ExportCsv(rows) ==
    LET columns == ObjectKeys(rows[1])
        headers == JoinTexts(columns, ",")
        lines == JoinTexts([i \in 1..Len(rows) |-> ExportLine(rows[i], columns)], "\n")
    IN  headers \o "\n" \o lines

\* The Download button of a table that shows rows.
handleExport ==
    /\ Len(tableResults) > 0
    /\ csv' = Some(ExportCsv(tableResults))
    /\ UNCHANGED << tableResults, rowsPerPage, currentPage, server, client,
                    lastCall, checked >>

(***************************************************************************)
(* TableSpec: the table alone, mounted with any rows the warehouse can     *)
(* return.                                                                 *)
(***************************************************************************)
TableInit ==
    /\ ServerInit
    /\ HomeInit
    /\ tableResults \in ResultSets
    /\ csv = Null
    /\ rowsPerPage = "10"
    /\ currentPage = 1
    /\ lastCall = NoCall
    /\ checked = Null

TableNext == handleExport

TableSpec == TableInit /\ [][TableNext]_vars

(***************************************************************************)
(* The pagination of the QueryResults table.                               *)
(***************************************************************************)
MaxPagedRows == 30

\* parseInt of a string of decimal digits
RECURSIVE parseInt(_)
parseInt(text) ==
    IF text = "" THEN 0
    ELSE 10 * parseInt(SubSeq(text, 1, Len(text) - 1))
         + (IndexIn("0123456789", CharAt(text, Len(text))) - 1)

\* Math.ceil(a / b) of positive integers
CeilDiv(a, b) == (a + b - 1) \div b

Min(a, b) == IF a <= b THEN a ELSE b
Max(a, b) == IF a >= b THEN a ELSE b

rowsPerPageInt == parseInt(rowsPerPage)
totalPages == CeilDiv(Len(tableResults), rowsPerPageInt)
startIdx == (currentPage - 1) * rowsPerPageInt
endIdx == Min(startIdx + rowsPerPageInt, Len(tableResults))

\* The values of the SelectItems.
RowsPerPageItems == {"10", "25", "50", "100"}

\* Select onValueChange={setRowsPerPage}
setRowsPerPage(value) ==
    /\ Len(tableResults) > 0
    /\ rowsPerPage' = value
    /\ UNCHANGED << tableResults, csv, currentPage, server, client, lastCall,
                    checked >>

\* The ChevronLeft button, disabled on the first page.
previousPage ==
    /\ Len(tableResults) > 0
    /\ currentPage # 1
    /\ currentPage' = Max(1, currentPage - 1)
    /\ UNCHANGED << tableResults, csv, rowsPerPage, server, client, lastCall,
                    checked >>

\* The ChevronRight button, disabled on the last page.
nextPage ==
    /\ Len(tableResults) > 0
    /\ currentPage # totalPages
    /\ currentPage' = Min(totalPages, currentPage + 1)
    /\ UNCHANGED << tableResults, csv, rowsPerPage, server, client, lastCall,
                    checked >>

\* A result set of each length up to MaxPagedRows.
PagedResults ==
    {[i \in 1..n |-> << [key |-> "c1", value |-> Num(i)] >>] : n \in 1..MaxPagedRows}

PageInit ==
    /\ ServerInit
    /\ HomeInit
    /\ tableResults \in PagedResults
    /\ csv = Null
    /\ rowsPerPage = "10"
    /\ currentPage = 1
    /\ lastCall = NoCall
    /\ checked = Null

PageNext ==
    \/ \E value \in RowsPerPageItems : setRowsPerPage(value)
    \/ previousPage
    \/ nextPage

PageSpec == PageInit /\ [][PageNext]_vars

\* C26: on a table that shows rows, whatever next-page, previous-page and
\* rows-per-page steps were taken, the page is one of the pages and the
\* slice of rows it shows is not empty and ends within the rows.
C26_PageInRange ==
    Len(tableResults) > 0 =>
        /\ 1 <= currentPage /\ currentPage <= totalPages
        /\ startIdx < endIdx /\ endIdx <= Len(tableResults)

\* The text cut at each occurrence of the separator character.
RECURSIVE SplitOn(_, _)
SplitOn(text, separator) ==
    IF \E i \in 1..Len(text) : CharAt(text, i) = separator
    THEN LET i == CHOOSE k \in 1..Len(text) :
                    /\ CharAt(text, k) = separator
                    /\ \A j \in 1..(k - 1) : CharAt(text, j) # separator
         IN  << SubSeq(text, 1, i - 1) >> \o SplitOn(SubSeq(text, i + 1, Len(text)), separator)
    ELSE << text >>

\* The fields a CSV reader finds in a line: a field that opens with a double
\* quote runs to the next double quote and on to the comma after it, any
\* other field runs to the next comma.
RECURSIVE CsvFields(_)
CsvFields(line) ==
    LET from == IF Len(line) > 0 /\ CharAt(line, 1) = "\""
                   /\ \E k \in 2..Len(line) : CharAt(line, k) = "\""
                THEN CHOOSE k \in 2..Len(line) :
                        /\ CharAt(line, k) = "\""
                        /\ \A j \in 2..(k - 1) : CharAt(line, j) # "\""
                ELSE 0
        commas == {k \in (from + 1)..Len(line) : CharAt(line, k) = ","}
    IN  IF commas = {} THEN << line >>
        ELSE LET i == CHOOSE k \in commas : \A j \in commas : k <= j
             IN  << SubSeq(line, 1, i - 1) >>
                 \o CsvFields(SubSeq(line, i + 1, Len(line)))

\* C12 (as claimed): in the exported text, every field whose rendered value
\* holds a comma is wrapped in double quotes, so each exported line splits
\* into exactly as many fields as there are columns.
C12_CommaFieldsQuoted ==
    csv # Null
    => LET lines == SplitOn(csv[1], "\n")
           columns == ObjectKeys(tableResults[1])
       IN  /\ Len(lines) = Len(tableResults) + 1
           /\ \A r \in 1..Len(tableResults) :
                LET fields == CsvFields(lines[r + 1])
                IN  /\ Len(fields) = Len(columns)
                    /\ \A c \in 1..Len(columns) :
                        LET text == ElementText(Get(tableResults[r], columns[c]))
                        IN  includes(text, ",") => fields[c] = "\"" \o text \o "\""


\* C13: a generate request answered 200 has stored exactly one record under
\* the id of its response; the record's prompt, projectId and dataset are the
\* request's, its sql is the sql of the response, and its processingGb,
\* summary and results are null.
C13_GenerateStoresRecord ==
    \A r \in Answered({"generate"}) :
        r.status = 200
        => /\ Cardinality({i \in 1..Len(queryStore) :
                              queryStore[i].value.id = r.json.id}) = 1
           /\ \A i \in 1..Len(queryStore) :
                queryStore[i].value.id = r.json.id
                => LET query == queryStore[i].value
                   IN  /\ queryStore[i].key = r.json.id
                       /\ query.prompt = r.body.prompt
                       /\ query.projectId = r.body.projectId
                       /\ query.dataset = r.body.dataset
                       /\ query.sql = r.json.sql
                       /\ query.processingGb = Null
                       /\ query.summary = Null
                       /\ query.results = Null

\* A generate request whose LLM call returned a statement was answered with
\* the second record's id.
C13_Witness ==
    \E r \in Answered({"generate"}) :
        /\ r.status = 200 /\ r.llmCalls = 1 /\ ~r.threw
        /\ r.json.id = 2 /\ r.json.sql # ""
        /\ Len(queryStore) = 2

\* The step answers a generate request with 200.
GenerateAnswered200 ==
    \E s \in Slots :
        /\ slots[s].pc # "done"
        /\ slots'[s].pc = "done" /\ slots'[s].kind = "generate" /\ slots'[s].status = 200

\* C14: no step removes a record; the number of records grows by exactly one
\* in a step that answers a generate request with 200 and stays as it is in
\* every other step (a generate request answered with an error, and every
\* step of validate, summarize, execute and history).
C14_RecordsOnlyAdded ==
    [][/\ Len(queryStore') >= Len(queryStore)
       /\ \A i \in 1..Len(queryStore) :
            \E j \in 1..Len(queryStore') : queryStore'[j].key = queryStore[i].key
       /\ Len(queryStore') = Len(queryStore) + (IF GenerateAnswered200 THEN 1 ELSE 0)]_vars

\* A generate request was answered with an error while the store holds a
\* record.
C14_Witness ==
    \E r \in Answered({"generate"}) :
        r.status = 400 /\ Len(queryStore) = 1 /\ queryCurrentId = 2

\* The prompt holds 'unique' and 'mmsi', in any case.
NamesUniqueMmsi(text) ==
    includes(toLowerCase(text), "unique") /\ includes(toLowerCase(text), "mmsi")

\* The request made no LLM call and no warehouse call.
NoExternalCall(r) ==
    r.llmCalls = 0 /\ r.validateCalls = 0 /\ r.dryRuns = 0 /\ r.executeCalls = 0

\* C15: a generate request whose prompt holds 'unique' and 'mmsi' is answered
\* 200 without an LLM call and has stored a record, and every validate,
\* summarize and execute request for the SQL it returned is answered without
\* an LLM call and without a warehouse call.
C15_DemoBypassesCalls ==
    \A r \in Answered({"generate"}) :
        (ParseOk(promptSchema, r.body) /\ NamesUniqueMmsi(r.body.prompt))
        => /\ r.status = 200
           /\ NoExternalCall(r)
           /\ \E i \in 1..Len(queryStore) :
                queryStore[i].value.id = r.json.id /\ queryStore[i].value.sql = r.json.sql
           /\ \A kind \in {"validate", "summary", "execute"} :
                \A next \in Run(Start(kind, [sql |-> r.json.sql,
                                             projectId |-> r.body.projectId,
                                             dataset |-> r.body.dataset])) :
                    next.status = 200 /\ NoExternalCall(next)

\* A generate request with the prompt in capitals was answered without an
\* LLM call.
C15_Witness ==
    \E r \in Answered({"generate"}) :
        /\ r.body = [prompt |-> "Unique MMSI", projectId |-> "proj", dataset |-> "ds"]
        /\ r.status = 200 /\ r.llmCalls = 0
        /\ Len(queryStore) = 1

\* The step is taken by a validate, summarize, execute or history request:
\* its arrival, one of its external calls coming back, or its closing.
ReadOnlyStep ==
    \E s \in Slots :
        /\ slots'[s] # slots[s]
        /\ \/ slots'[s].pc # "idle" /\ slots'[s].kind \in {"validate", "summary", "execute", "history"}
           \/ slots'[s].pc = "idle" /\ slots[s].kind \in {"validate", "summary", "execute", "history"}

\* C16: every step of a validate, summarize, execute or history request,
\* answered 200 or not, leaves the records and the next identifier as they
\* were.
C16_ReadOnlyEndpoints ==
    [][ReadOnlyStep => UNCHANGED << queryStore, queryCurrentId >>]_vars

\* A summarize request was answered while the store holds a record.
C16_Witness ==
    \E r \in Answered({"summary"}) :
        r.status = 200 /\ r.llmCalls = 1 /\ Len(queryStore) = 1


\* The step in which the generate request in slot s calls createQuery: the
\* return (or throw) of its LLM call, or its arrival with the demo prompt.
Stores(s) ==
    /\ slots[s].pc # "done"
    /\ slots'[s].pc = "done" /\ slots'[s].kind = "generate" /\ slots'[s].status = 200

\* C18: among concurrent generate requests, the step in which a request's
\* LLM call completes gives it the identifier after those of all requests
\* that completed before it, whatever the order of arrival: an identifier no
\* other request holds and no record is stored under, with its record added
\* after the records already stored, each of which is left as it was.
C18_AtomicAllocation ==
    [][\A s \in Slots :
        Stores(s)
        => LET id == slots'[s].json.id
           IN  /\ id = Len(issued) + 1
               /\ issued' = Append(issued, id)
               /\ \A t \in Slots \ {s} : slots'[t].pc = "done" => slots'[t].json.id # id
               /\ \A i \in 1..Len(queryStore) :
                    queryStore[i].key # id /\ queryStore'[i] = queryStore[i]
               /\ Len(queryStore') = Len(queryStore) + 1
               /\ queryStore'[Len(queryStore')].key = id
               /\ queryStore'[Len(queryStore')].value.prompt = slots'[s].body.prompt]_vars

\* The request that arrived second was answered with identifier 1 while the
\* request that arrived first is still waiting for its LLM call.
C18_Witness ==
    \E s, t \in Slots :
        /\ slots[s].pc = "llm" /\ slots[s].kind = "generate" /\ slots[s].arrival = 0
        /\ slots[t].pc = "done" /\ slots[t].kind = "generate" /\ slots[t].status = 200
        /\ slots[t].arrival = 1 /\ slots[t].llmCalls = 1 /\ slots[t].json.id = 1


\* The step is a call of updateQuery.
UpdateCalled == lastCall'.method = "updateQuery"

\* C20: a call of updateQuery with an identifier no record has returns
\* undefined and leaves the store as it was; with a known identifier it
\* returns the record it stored, which keeps its identifier, createdAt, map
\* key and place in the map, no record is added or removed, every other
\* record is as it was, and a processingGb, summary or results that is null
\* or absent in the update keeps the record's value.
C20_UpdateInPlace ==
    [][UpdateCalled
       => LET id == lastCall'.id
              partialQuery == lastCall'.partialQuery
          IN  /\ queryCurrentId' = queryCurrentId
              /\ Len(queryStore') = Len(queryStore)
              /\ \A i \in 1..Len(queryStore) :
                    /\ queryStore'[i].key = queryStore[i].key
                    /\ queryStore[i].key # id => queryStore'[i] = queryStore[i]
                    /\ queryStore[i].key = id
                       => /\ queryStore'[i].value.id = queryStore[i].value.id
                          /\ queryStore'[i].value.createdAt = queryStore[i].value.createdAt
                          /\ lastCall'.returned = Some(queryStore'[i].value)
                          /\ \A key \in {"processingGb", "summary", "results"} :
                                (key \notin DOMAIN partialQuery \/ partialQuery[key] = Null)
                                => queryStore'[i].value[key] = queryStore[i].value[key]
              /\ (\A i \in 1..Len(queryStore) : queryStore[i].key # id)
                 => lastCall'.returned = Null /\ queryStore' = queryStore]_vars

\* updateQuery was called for the first of two records with a null summary
\* and kept the summary the record had.
C20_Witness ==
    /\ lastCall.method = "updateQuery"
    /\ lastCall.id = 1
    /\ lastCall.partialQuery = [processingGb |-> Some("2.00"), summary |-> Null]
    /\ Len(queryStore) = 2
    /\ queryStore[1].key = 1
    /\ queryStore[1].value.summary = Some("old")
    /\ queryStore[1].value.processingGb = Some("2.00")
    /\ lastCall.returned = Some(queryStore[1].value)


\* C19: every generate, validate, summarize and execute request the page has
\* posted carries a non-empty prompt (generate) or sql (the others), a
\* non-empty projectId and a non-empty dataset: a mutation started with an
\* empty input is rejected by its own guard and posts nothing.
C19_NoEmptyRequest ==
    \A i \in 1..Len(pending) :
        LET body == pending[i].body
        IN  /\ pending[i].kind \in Mutations
            /\ body.projectId # ""
            /\ body.dataset # ""
            /\ IF pending[i].kind = "generate" THEN body.prompt # "" ELSE body.sql # ""

\* The summary was asked for with the SQL editor emptied: the mutation was
\* rejected by its guard, and no request is in flight.
C19_Witness ==
    /\ lastEvent.type = "reject" /\ lastEvent.kind = "summary"
    /\ sql = ""
    /\ toast = Toast("Error", "Please provide SQL, project ID, and dataset", "destructive")
    /\ pending = << >>


\* The step posts an execute request.
ExecutePosted ==
    /\ lastEvent'.type = "mutate" /\ lastEvent'.kind = "execute"
    /\ Len(pending') = Len(pending) + 1

\* C17 (as claimed): whenever the page posts an execute request, the SQL it
\* sends is the SQL of the most recent validation answered valid and is the
\* SQL the displayed summary was made for.
C17_ExecutesCheckedSql ==
    [][ExecutePosted
       => LET sent == pending'[Len(pending')].body.sql
          IN  /\ checked.validated = Some(sent)
              /\ checked.summarized = Some(sent)]_vars


\* The execute request a client makes with the SQL of a generate response.
ExecuteOf(r) ==
    Run(Start("execute", [sql |-> r.json.sql, projectId |-> r.body.projectId,
                          dataset |-> r.body.dataset]))

\* C25: an execute request for a statement led by none of the
\* keywords makes no warehouse call and is answered 400, and so is the
\* execute request for the fallback SQL of a generate request whose LLM call
\* failed.
C25_UnknownRejected ==
    /\ \A r \in Answered({"execute"}) :
        (ParseOk(executionSchema, r.body) /\ LeadingClasses(r.body.sql) = {})
        => r.executeCalls = 0 /\ r.status = 400
    /\ \A r \in Answered({"generate"}) :
        r.threw => \A next \in ExecuteOf(r) : next.executeCalls = 0 /\ next.status = 400


\* The step answers the validate request in slot s with 200, outside the
\* demo shortcut.
ValidateAnswered(s) ==
    /\ slots[s].pc \notin {"idle", "done"}
    /\ slots'[s].pc = "done" /\ slots'[s].kind = "validate" /\ slots'[s].status = 200

\* The validation result a dry run can give, as the response carries it.
FromDryRun(json, outcomes) ==
    \E outcome \in outcomes :
        /\ json.valid = outcome.ok
        /\ json.processingGB = (IF outcome.ok THEN toFixed2(outcome.bytes) ELSE "0")
        /\ json.message = (IF outcome.ok THEN "Query is valid" ELSE outcome.message)

\* C24: outside the demo shortcut, a validate response says valid only when
\* the dry run that has just returned succeeded and was made for the SQL the
\* response designates (its sql when it has one, the request's otherwise);
\* it has an sql exactly when fixed is true, and then the dry run of that
\* sql has just returned and valid, processingGB and message are its result.
C24_ValidFromDryRun ==
    [][\A s \in Slots :
        ValidateAnswered(s)
        => LET json == slots'[s].json
               pc == slots[s].pc
           IN  /\ ("sql" \in DOMAIN json) <=> json.fixed
               /\ json.valid
                  => /\ pc \in {"dryRun", "fixDryRun"}
                     /\ pc = "dryRun" => ~json.fixed
                     /\ pc = "fixDryRun" => json.fixed /\ json.sql = slots[s].fixedSql[1]
                     /\ FromDryRun(json, {o \in DryRunOutcomes : o.ok})
               /\ json.fixed
                  => /\ pc = "fixDryRun"
                     /\ json.sql = slots[s].fixedSql[1]
                     /\ FromDryRun(json, DryRunOutcomes)]_vars


\* C29: with every LLM call and every warehouse call returning or throwing,
\* every request being handled is eventually answered, and a handler has
\* sent no response while its request is being handled and exactly one once
\* it is answered.
C29_AnsweredOnce ==
    /\ [](\A s \in Slots :
            slots[s].pc # "idle"
            => slots[s].responses = (IF slots[s].pc = "done" THEN 1 ELSE 0))
    /\ \A s \in Slots :
        (slots[s].pc \notin {"idle", "done"}) ~> (slots[s].pc = "done")

\* A validate request was answered after both of its dry runs and the LLM
\* call of its repair.
C29_Witness ==
    \E r \in Answered({"validate"}) :
        /\ r.dryRuns = 2 /\ r.llmCalls = 1 /\ r.threw
        /\ r.responses = 1 /\ r.status = 200

\* The step resolves a validate call.
ValidateResolved ==
    /\ lastEvent'.type = "resolve"
    /\ lastEvent'.kind = "validate"
    /\ pending' # pending

\* C23: when a validate call resolves with valid = false, the page stays on
\* its step, validationResult becomes the response of one of the validate
\* calls in flight, and sql becomes the response's sql ("" when it has
\* none) exactly when the response says fixed, and is left alone otherwise.
C23_InvalidKeepsStep ==
    [][(ValidateResolved /\ ~validationResult'[1].valid) =>
          LET data == validationResult'[1]
          IN  /\ activeStep' = activeStep
              /\ \E i \in 1..Len(pending) :
                    /\ pending[i].kind = "validate"
                    /\ [ok |-> TRUE, data |-> data]
                          \in CallOutcomes("validate", pending[i].body)
              /\ sql' = (IF data.fixed THEN SqlOrEmpty(data) ELSE sql)]_vars

\* A failed repair came back: the page is still on the generate step, with
\* the repaired text in the editor.
C23_Witness ==
    /\ lastEvent.type = "resolve"
    /\ lastEvent.kind = "validate"
    /\ lastEvent.from = "generate"
    /\ activeStep = "generate"
    /\ validationResult # Null
    /\ ~validationResult[1].valid
    /\ validationResult[1].fixed
    /\ sql = validationResult[1].sql
    /\ sql # ""

\* C28: whenever the page shows the execute step, results is an array, so
\* the render can read results.length.
C28_ResultsIsArray == activeStep = "execute" => results # Null

\* The calls of a kind that are in flight.
InFlight(kind) == {i \in 1..Len(pending) : pending[i].kind = kind}

\* C22: at any time at most one call of each kind is in flight.
C22_OneInFlight == \A kind \in Mutations : Cardinality(InFlight(kind)) <= 1

\* C21: whenever the page shows the execute step, the results it holds are
\* those of executing the text the sql state holds.
C21_ResultsOfCurrentSql == activeStep = "execute" => checked.executed = Some(sql)

\* C27: the page shows the execute step only after a generate call
\* succeeded, then a validate call was answered valid, then a summarize call
\* succeeded.
C27_ExecuteAfterAll == activeStep = "execute" => checked.progress = 3

\* The execute step, reached along the whole workflow.
C27_Witness ==
    /\ activeStep = "execute"
    /\ lastEvent.type = "resolve"
    /\ lastEvent.kind = "execute"
    /\ checked.progress = 3
====
